---- MODULE Spec2Model ----
(***************************************************************************)
(* A model of the gio-v widget toolkit: the Button's per-frame layout and  *)
(* click handling (wid/button.go), the ink animation drawInk, the node     *)
(* tree builders MakeList / MakeFlex (wid/setup.go), the Separator         *)
(* (wid/separator.go) and the demo program's event loop (demo.go).         *)
(*                                                                         *)
(* Lengths are pixels (PxPerDp = 1).  Times are ticks of 0.05 s, so the    *)
(* fade duration 0.9 s of drawInk is 18 ticks.                             *)
(***************************************************************************)
EXTENDS Integers, Sequences, FiniteSets, TLC

VARIABLES
  flexArgs,     \* MakeFlex: the widgets argument of the call
  flexNode,     \* MakeFlex: node.children, the widget of each child node
  flexBuilt,    \* MakeFlex has returned its layout function
  flexL,        \* the main-axis Max of the last pass (-1: no pass yet)
  flexSizes,    \* the main-axis length each child returned in the last pass
  sepStyle,     \* Separator: thickness and padding of the SeparatorStyle
  sepCons,      \* the constraints of the last Separator pass
  sepDims,      \* the dimensions the last Separator pass returned
  listArgs,     \* MakeList: the widgets argument of the call
  listNode,     \* MakeList: node.children, the widget of each child node
  listBuilt,    \* MakeList has returned its layout function
  listOffset,   \* the scroll offset kept in the captured listStyle
  listV,        \* viewport length of the last pass (0: no pass yet)
  listScale,    \* text size of the last pass: a child's extent is its base x scale
  listInput,    \* the scroll input the last pass consumed
  listLaid,     \* the last pass: <<index, widget>> of every element call, in order
  inkPress,     \* the Press record whose ink is sampled
  inkNow,       \* gtx.Now of the last sample
  inkOut,       \* what drawInk did in the last sample
  now,          \* Button: gtx.Now of the last frame
  history,      \* Clickable's press history, oldest first
  hovered,      \* Clickable: the pointer is over the button
  focused,      \* Clickable: the button has the keyboard focus
  disabled,     \* b.disabled, as the last frame set it
  disabler,     \* b.disabler: "nil", or the pointed-to flag "true" / "false"
  GlobalDisable,\* the package variable GlobalDisable
  clicks,       \* clicks queued by the event handlers, not yet handled
  handled,      \* handler calls, per physical press
  keyClicks,    \* handler calls for keyboard activations
  invalidated,  \* the last frame added an InvalidateOp
  pointerDown,  \* the host's pointer is pressed
  cur,          \* number of physical presses so far
  outcome,      \* per physical press: the first event that ended it
  accepted,     \* per physical press: the flags enabled the widget in its frame
  midDisabled,  \* per physical press: a later frame, up to the one that ended
                \* it, found the flags disabling the widget
  tickerPc,     \* demo main: the ticker goroutine, "sleep" or "send" (blocked
                \* in the send on progressIncrementer)
  loopPc,       \* demo main: the statement the event-loop goroutine is at
  winOffer,     \* the event the window is blocked sending on win.Events()
  curEvent,     \* e, the window event the loop received last
  pg,           \* the value the loop received from progressIncrementer
  progress,     \* the package variable progress, in tenths
  oldWindowSize,\* the package variable oldWindowSize (0: the zero Point)
  tree,         \* the widget tree setup() built: the window size it was built for
  seen,         \* the progress value the last layout pass drew
  invalidateReq,\* win.Invalidate() was called and no frame has followed yet
  pending       \* events received by the loop and not yet handled to completion

flexVars == <<flexArgs, flexNode, flexBuilt, flexL, flexSizes>>
sepVars == <<sepStyle, sepCons, sepDims>>
listVars == <<listArgs, listNode, listBuilt, listOffset, listV, listScale, listInput, listLaid>>
inkVars == <<inkPress, inkNow, inkOut>>
btnVars == <<now, history, hovered, focused, disabled, disabler, GlobalDisable,
             clicks, handled, keyClicks, invalidated,
             pointerDown, cur, outcome, accepted, midDisabled>>
loopVars == <<tickerPc, loopPc, winOffer, curEvent, pg, progress, oldWindowSize,
              tree, seen, invalidateReq, pending>>
vars == <<flexVars, sepVars, listVars, inkVars, btnVars, loopVars>>

Max2(a, b) == IF a > b THEN a ELSE b
Min2(a, b) == IF a < b THEN a ELSE b

RECURSIVE SumSeq(_)
SumSeq(s) == IF s = <<>> THEN 0 ELSE Head(s) + SumSeq(Tail(s))

(***************************************************************************)
(* Widths.  unit.Value is modelled as the rational num/den of dp.          *)
(***************************************************************************)
\* gtx.Px(w.Scale(s)): the value times s, rounded half away from zero.
PxScaled(w, s) == (2 * w.num * s + w.den) \div (2 * w.den)

\* gtx.Px(w)
Px(w) == PxScaled(w, 1)

\* ButtonDef.Layout, lines 282-290: the min width the button asks of its content.
ButtonMinXNoClamp(w, minX, maxX) ==
  IF w.num <= w.den THEN PxScaled(w, maxX)
  ELSE IF minX < Px(w) THEN Px(w) ELSE minX

ButtonMinX(w, minX, maxX) ==
  LET m == IF w.num <= w.den THEN PxScaled(w, maxX)
           ELSE IF minX < Px(w) THEN Px(w) ELSE minX
  IN  IF m > maxX THEN maxX ELSE m

(***************************************************************************)
(* Separator                                                               *)
(***************************************************************************)
\* The function Separator returns: dim = Max, dim.Y = thickness + top + bottom.
SeparatorLayout(s, cons) ==
  [X |-> cons.maxX, Y |-> s.thickness + s.top + s.bottom]

(***************************************************************************)
(* Flex: every child of MakeFlex is a layout.Rigid child of a horizontal   *)
(* layout.Flex; a Rigid child is offered [0, remaining] on the main axis.  *)
(***************************************************************************)
Fixed(px) == [kind |-> "Fixed", width |-> [num |-> px, den |-> 1]]
Relative(n, d) == [kind |-> "Relative", width |-> [num |-> n, den |-> d]]
FillRemaining == [kind |-> "Fill", width |-> [num |-> 0, den |-> 1]]

\* The main-axis length a child widget returns when offered [minX, maxX]: a
\* widget sized by the Width rule of ButtonDef.Layout, or one that takes its
\* Max as Separator does.
ChildWidth(c, minX, maxX) ==
  IF c.kind = "Fill" THEN SeparatorLayout([thickness |-> 0, top |-> 0, bottom |-> 0],
                                          [maxX |-> maxX]).X
  ELSE ButtonMinX(c.width, minX, maxX)

RECURSIVE LayRigid(_, _)
LayRigid(ch, remaining) ==
  IF ch = <<>> THEN <<>>
  ELSE LET sz == ChildWidth(Head(ch), 0, remaining)
           rest == IF remaining - sz < 0 THEN 0 ELSE remaining - sz
       IN  <<sz>> \o LayRigid(Tail(ch), rest)

\* drawFlex(n)(gtx): the main-axis lengths of the children, in order.
drawFlexAllOfferedMax(children, mainMax) ==
  [i \in 1..Len(children) |-> ChildWidth(children[i], 0, mainMax)]

drawFlex(children, mainMax) == LayRigid(children, mainMax)

(***************************************************************************)
(* Bounds of the flex and separator inputs                                 *)
(***************************************************************************)
MaxChildren == 3
MaxL == 12
MaxDim == 4

\* The widgets a flex is built from: fixed widths in px (W(3), W(7)), widths
\* relative to the offered Max (W(0.25), W(0.5), W(0.75)), and fill widgets.
FlexWidgets ==
  {Fixed(3), Fixed(7), Relative(1, 4), Relative(1, 2), Relative(3, 4), FillRemaining}

SeqsUpTo(S, n) == UNION {[1..k -> S] : k \in 0..n}

\* node.addChild(w): appends a node pointing at its own copy of w.  A node
\* pointing at a variable shared by all calls would show every child the
\* widget added last.
addChildShared(children, w) == [i \in 1..(Len(children) + 1) |-> w]

addChild(children, w) == Append(children, w)

\* for _, w := range widgets { node.addChild(w) }
RECURSIVE AddChildren(_, _)
AddChildren(children, ws) ==
  IF ws = <<>> THEN children
  ELSE AddChildren(addChild(children, Head(ws)), Tail(ws))

\* MakeFlex(widgets...): node.addChild appends each widget in argument order.
MakeFlex(ws) ==
  /\ ~flexBuilt
  /\ flexArgs' = ws
  /\ flexNode' = AddChildren(<<>>, ws)
  /\ flexBuilt' = TRUE
  /\ UNCHANGED <<flexL, flexSizes>>
  /\ UNCHANGED <<sepVars, listVars, inkVars, btnVars, loopVars>>

\* One invocation of the function MakeFlex returned, with main-axis Max = L.
FlexPass(L) ==
  /\ flexBuilt
  /\ flexSizes' = drawFlex(flexNode, L)
  /\ flexL' = L
  /\ UNCHANGED <<flexArgs, flexNode, flexBuilt>>
  /\ UNCHANGED <<sepVars, listVars, inkVars, btnVars, loopVars>>

\* Separator(th, thickness, options...): the style the closure captures.
SepStyles ==
  [thickness : {1, 2, 5}, top : {0, 1, 5}, bottom : {0, 1, 5}]

SepConstraints ==
  {c \in [minX : 0..MaxDim, maxX : 0..MaxDim, minY : 0..MaxDim, maxY : 0..MaxDim] :
     c.minX <= c.maxX /\ c.minY <= c.maxY}

MakeSeparator(s) ==
  /\ sepStyle = [thickness |-> 0, top |-> 0, bottom |-> 0]
  /\ sepStyle' = s
  /\ UNCHANGED <<sepCons, sepDims>>
  /\ UNCHANGED <<flexVars, listVars, inkVars, btnVars, loopVars>>

SepPass(cons) ==
  /\ sepStyle.thickness > 0
  /\ sepCons' = cons
  /\ sepDims' = SeparatorLayout(sepStyle, cons)
  /\ UNCHANGED sepStyle
  /\ UNCHANGED <<flexVars, listVars, inkVars, btnVars, loopVars>>

(***************************************************************************)
(* List: MakeList builds the node and one listStyle; the function it       *)
(* returns runs drawList(node, listStyle)(gtx) on every pass.              *)
(***************************************************************************)
MaxWidgets == 2
MaxV == 2
MaxDelta == 1

\* the text sizes a pass is laid out with: a child's extent follows the size
ListScales == {1, 2}

\* Widget k measures k x scale along the list's axis.
Extent(w, sc) == w * sc

ListExtents(node, sc) == [i \in 1..Len(node) |-> Extent(node[i], sc)]

TotalExtent(node, sc) == SumSeq(ListExtents(node, sc))

\* Start of child i: the extents of the children before it.
ChildStart(node, sc, i) == SumSeq(SubSeq(ListExtents(node, sc), 1, i - 1))

ScrollInputs ==
  {[kind |-> "none", d |-> 0]}
    \cup [kind : {"drag", "wheel"}, d : (-MaxDelta..MaxDelta) \ {0}]
    \cup [kind : {"write"}, d : -1..(MaxWidgets + MaxV + 1)]

\* The offset a scroll input asks for: a drag moves the content with the
\* pointer, a wheel delta scrolls by it, a write sets the offset.
ScrolledOffset(o, inp) ==
  IF inp.kind = "drag" THEN o - inp.d
  ELSE IF inp.kind = "wheel" THEN o + inp.d
  ELSE IF inp.kind = "write" THEN inp.d
  ELSE o

\* Clamp to [0, max(0, totalExtent - V)].
ClampOffset(o, total, V) == Max2(0, Min2(o, Max2(0, total - V)))

\* The indices ListStyle.Layout calls its element function with: children
\* ending at or before the offset are skipped (their extent only counted),
\* and the walk stops at the first child starting at or after offset + V.
RECURSIVE VisibleFrom(_, _, _, _, _)
VisibleFrom(ext, i, pos, o, V) ==
  IF i > Len(ext) \/ pos >= o + V THEN <<>>
  ELSE IF pos + ext[i] <= o THEN VisibleFrom(ext, i + 1, pos + ext[i], o, V)
  ELSE <<i>> \o VisibleFrom(ext, i + 1, pos + ext[i], o, V)

\* drawList, lines 39-42 and 47-50: ch[i] is *n.children[i].w, and the element
\* function of index i calls ch[i].
ElementFirst(node, i) == node[1]

Element(node, i) == node[i]

\* drawList(n, listStyle)(gtx): the element calls of one pass.
drawList(node, o, V, sc) ==
  LET idx == VisibleFrom(ListExtents(node, sc), 1, 0, o, V)
  IN  [k \in 1..Len(idx) |-> <<idx[k], Element(node, idx[k])>>]

\* MakeList, lines 30-34: the returned function closes over the one listStyle
\* MakeList built, so a pass starts from the offset the pass before left.
ListStyleRebuilt(captured) == 0

ListStyleOffset(captured) == captured

\* MakeList(th, dir, widgets...): node.addChild appends each widget in order.
MakeList(ws) ==
  /\ ~listBuilt
  /\ listArgs' = ws
  /\ listNode' = AddChildren(<<>>, ws)
  /\ listBuilt' = TRUE
  /\ listOffset' = 0
  /\ UNCHANGED <<listV, listScale, listInput, listLaid>>
  /\ UNCHANGED <<flexVars, sepVars, inkVars, btnVars, loopVars>>

\* One invocation of the function MakeList returned: viewport V, text size
\* sc, scroll input inp.
ListPass(V, sc, inp) ==
  /\ listBuilt
  /\ LET o == ClampOffset(ScrolledOffset(ListStyleOffset(listOffset), inp),
                          TotalExtent(listNode, sc), V)
     IN  /\ listOffset' = o
         /\ listLaid' = drawList(listNode, o, V, sc)
  /\ listV' = V
  /\ listScale' = sc
  /\ listInput' = inp.kind
  /\ UNCHANGED <<listArgs, listNode, listBuilt>>
  /\ UNCHANGED <<flexVars, sepVars, inkVars, btnVars, loopVars>>

(***************************************************************************)
(* drawInk: the ink of one Press at time now.  Fade positions (t/0.9) are  *)
(* counted in 1/18, so 0.5 is 9; the opacity alpha is AlphaNum/AlphaDen.   *)
(***************************************************************************)
\* 0.9 s, the fade duration, in ticks
FadeTicks == 18

\* one second in ticks: Seconds() of a duration of SecondTicks ticks is 1.0
SecondTicks == 20

HalfFade == FadeTicks \div 2

\* the zero time.Time (End.IsZero())
NoTime == -1

NoPress == [Start |-> NoTime, End |-> NoTime, Cancelled |-> FALSE]

AlphaDen == 10 * FadeTicks * FadeTicks * FadeTicks

\* lines 119-127
Haste(c, endt) ==
  IF c.Cancelled /\ HalfFade - endt > 0 THEN HalfFade - endt ELSE 0

\* lines 129-132: math.Max(t/0.9+haste, 0.5), then capped at 0.5
Half1(t, haste) ==
  LET h == Max2(t + haste, HalfFade)
  IN  IF h > HalfFade THEN HalfFade ELSE h

\* lines 149-152: the fade position folded back after half the animation
FoldNever(alphat) == alphat

Fold(alphat) == IF alphat > HalfFade THEN FadeTicks - alphat ELSE alphat

\* line 156: 0.7 * alphat * 2 * t2 * (3.0 - 3.0*alphat), t2 = alphat * 2
AlphaNum(alphat) == 7 * (alphat * 2) * (alphat * 2) * (3 * FadeTicks - 3 * alphat)

\* line 157: ba := byte(alpha*0xff).  The conversion truncates; for a value
\* above 255 the result depends on the build: the low eight bits of the
\* truncated value, or the saturated 255.
AlphaBytes(num) ==
  LET v == (255 * num) \div AlphaDen
  IN  IF v <= 255 THEN {v} ELSE {v % 256, 255}

\* lines 145-148: "Animate only ended presses, and presses that are fading
\* in": if !c.End.IsZero() || sizet <= 1.0
InvalidatesEndedOnly(c, sizet) == c.End # NoTime

Invalidates(c, sizet) == c.End # NoTime \/ sizet <= SecondTicks

\* drawInk(gtx, c) with gtx.Now = at: whether it paints, the opacity it
\* paints with and the bytes it can become, the fade-in position half1, the expansion sizet (in
\* 1/SecondTicks) and whether it adds an InvalidateOp.
drawInk(at, c) ==
  LET t == at - c.Start
      end == IF c.End = NoTime THEN at ELSE c.End
      endt == end - c.Start
      haste == Haste(c, endt)
      half1 == Half1(t, haste)
      half2 == (at - end) + haste
      alphat == half1 + half2
      tt == IF c.Cancelled THEN endt ELSE t
      sizet == Min2(tt * 2, SecondTicks)
  IN  IF half2 > HalfFade
      THEN [drawn |-> FALSE, alpha |-> 0, ba |-> {0}, half1 |-> half1, sizet |-> 0,
            invalidate |-> FALSE]
      ELSE [drawn |-> TRUE,
            alpha |-> AlphaNum(Fold(alphat)),
            ba |-> AlphaBytes(AlphaNum(Fold(alphat))),
            half1 |-> half1,
            sizet |-> sizet,
            invalidate |-> Invalidates(c, sizet)]

MaxInkTime == 32
MaxDt == 3

\* A frame in which the press starts: the record is appended with Start = now.
InkPressFrame(dt) ==
  /\ inkPress = NoPress
  /\ inkNow + dt <= MaxInkTime
  /\ inkNow' = inkNow + dt
  /\ inkPress' = [Start |-> inkNow', End |-> NoTime, Cancelled |-> FALSE]
  /\ inkOut' = drawInk(inkNow', inkPress')
  /\ UNCHANGED <<flexVars, sepVars, listVars, btnVars, loopVars>>

\* A frame in which the press is released or cancelled: End = now.
InkReleaseFrame(dt, cancel) ==
  /\ inkPress # NoPress /\ inkPress.End = NoTime
  /\ inkNow + dt <= MaxInkTime
  /\ inkNow' = inkNow + dt
  /\ inkPress' = [inkPress EXCEPT !.End = inkNow', !.Cancelled = cancel]
  /\ inkOut' = drawInk(inkNow', inkPress')
  /\ UNCHANGED <<flexVars, sepVars, listVars, btnVars, loopVars>>

\* A later frame: the record is drawn at the new time.
InkFrame(dt) ==
  /\ inkPress # NoPress
  /\ inkNow + dt <= MaxInkTime
  /\ inkNow' = inkNow + dt
  /\ inkOut' = drawInk(inkNow', inkPress)
  /\ UNCHANGED inkPress
  /\ UNCHANGED <<flexVars, sepVars, listVars, btnVars, loopVars>>

(***************************************************************************)
(* Button: the function Button returns runs b.Layout(gtx) and then         *)
(* b.HandleClick() on every frame.  The embedded Clickable (its event      *)
(* handlers, History, HandleClick) follows the specification's sections    *)
(* 4.1 and 4.2.                                                            *)
(***************************************************************************)
MaxPresses == 1
MaxKeyClicks == 1
MaxTime == 10
FrameTick == 5

Presses == 1..MaxPresses

PointerEvents == {"press", "releaseIn", "releaseOut", "cancel", "leave", "enter"}
KeyEvents == {"focus", "blur", "key"}
Events == PointerEvents \cup KeyEvents \cup {"none"}

\* the events that end a physical press, as the widget sees it
Ending == {"releaseIn", "releaseOut", "cancel", "leave"}

\* ButtonDef.Layout, lines 277-281: b.disabler != nil && *b.disabler || GlobalDisable
DisabledIfBoth(d, g) == d = "true" /\ g

Disabled(d, g) == d = "true" \/ g

\* line 279: gtx.Disabled() has a nil Queue, so a disabled frame hands the
\* handlers no event.
EventsUnblocked(ev, dis) == ev

\* disabling that cancels the press in flight
FrameEventCancel(ev, dis) == IF dis THEN "cancel" ELSE ev

\* disabling that withholds the pointer events only
KeysUnblocked(ev, dis) == IF dis /\ ev \notin KeyEvents THEN "none" ELSE ev

FrameEvent(ev, dis) == IF dis THEN "none" ELSE ev

\* line 103: b.HandleClick() runs after every b.Layout(gtx) and handles the
\* clicks that Layout queued.
HandledNever(queued) == <<>>

HandledInFrame(queued) == queued

\* index of the most recent open record, 0 if there is none
LastOpen(h) ==
  LET open == {i \in 1..Len(h) : h[i].End = NoTime}
  IN  IF open = {} THEN 0 ELSE CHOOSE i \in open : \A j \in open : j <= i

\* recordPress
RecordPress(h, id, t) ==
  Append(h, [id |-> id, Start |-> t, End |-> NoTime, Cancelled |-> FALSE])

\* recordRelease: closes the most recent open record; a no-op without one
RecordReleaseLast(h, t) ==
  IF h = <<>> THEN h ELSE [h EXCEPT ![Len(h)].End = t]

RecordRelease(h, t) ==
  IF LastOpen(h) = 0 THEN h ELSE [h EXCEPT ![LastOpen(h)].End = t]

\* recordCancel: the most recent open record is cancelled at t
RecordCancel(h, t) ==
  IF LastOpen(h) = 0 THEN h
  ELSE [h EXCEPT ![LastOpen(h)].End = t, ![LastOpen(h)].Cancelled = TRUE]

\* handlePointerEvent / handleKeyEvent: the history after the event
HistoryAfter(h, ev, id, t, foc) ==
  IF ev = "press" THEN RecordPress(h, id, t)
  ELSE IF ev \in {"releaseIn", "releaseOut"} THEN RecordRelease(h, t)
  ELSE IF ev \in {"cancel", "leave"} THEN RecordCancel(h, t)
  ELSE IF ev = "key" /\ foc
       THEN Append(h, [id |-> 0, Start |-> t, End |-> t, Cancelled |-> FALSE])
  ELSE h

\* the clicks the event queues: the press a release inside bounds closes, or
\* 0 for a keyboard activation
ClicksOf(h, ev, foc) ==
  IF ev = "releaseIn" /\ LastOpen(h) # 0 THEN <<h[LastOpen(h)].id>>
  ELSE IF ev = "key" /\ foc THEN <<0>>
  ELSE <<>>

HoveredAfter(hov, ev) ==
  IF ev \in {"press", "enter"} THEN TRUE
  ELSE IF ev = "leave" THEN FALSE
  ELSE hov

FocusedAfter(foc, ev) ==
  IF ev = "focus" THEN TRUE
  ELSE IF ev = "blur" THEN FALSE
  ELSE foc

\* a record is dropped as soon as it has ended
FadedOnEnd(c, t) == c.End # NoTime

\* no record ever counts as faded
FadedNever(c, t) == FALSE

\* a record whose fade-out has completed: (now-end)/0.9 + haste > 0.5
Faded(c, t) ==
  /\ c.End # NoTime
  /\ (t - c.End) + Haste(c, c.End - c.Start) > HalfFade

Keep(c, t) == ~Faded(c, t)

\* records older than their fade-out completion are pruned
Prune(h, t) ==
  LET kept == {i \in 1..Len(h) : Keep(h[i], t)}
      RECURSIVE Pick(_)
      Pick(i) == IF i > Len(h) THEN <<>>
                 ELSE IF i \in kept THEN <<h[i]>> \o Pick(i + 1)
                 ELSE Pick(i + 1)
  IN  Pick(1)

\* ButtonDef.LayoutBackground, lines 229-231: drawInk for every record
InkInvalidates(h, t) ==
  \E i \in 1..Len(h) : drawInk(t, [Start |-> h[i].Start, End |-> h[i].End,
                                    Cancelled |-> h[i].Cancelled]).invalidate

\* a transition that starts or continues an animation (a record opened,
\* closed, cancelled or added by the keyboard) schedules a redraw
ClickableInvalidates(h, h1) == h1 # h

\* every press in the history has been released or cancelled
AllEnded(h) == \A i \in 1..Len(h) : h[i].End # NoTime

CountOf(q, id) == Cardinality({i \in 1..Len(q) : q[i] = id})

\* what the host can deliver, given the state of its pointer
Deliverable(ev) ==
  IF ev = "press" THEN ~pointerDown /\ cur < MaxPresses
  ELSE IF ev \in {"releaseIn", "releaseOut", "cancel"} THEN pointerDown
  ELSE IF ev = "key" THEN keyClicks < MaxKeyClicks
  ELSE TRUE

\* One frame, dt after the last, in which the host delivers ev: the function
\* Button returned, i.e. b.Layout(gtx) followed by b.HandleClick().
Frame(dt, ev) ==
  /\ Deliverable(ev)
  /\ now' = now + dt
  /\ LET dis == Disabled(disabler, GlobalDisable)
         flags == disabler = "true" \/ GlobalDisable
         e == FrameEvent(ev, dis)
         id == cur + 1
         h1 == HistoryAfter(history, e, id, now', focused)
         queued == clicks \o ClicksOf(history, e, focused)
         done == HandledInFrame(queued)
     IN  /\ disabled' = dis
         /\ invalidated' = (InkInvalidates(history, now') \/ ClickableInvalidates(history, h1))
         /\ history' = Prune(h1, now')
         /\ hovered' = HoveredAfter(hovered, e)
         /\ focused' = FocusedAfter(focused, e)
         /\ clicks' = IF done = <<>> THEN queued ELSE <<>>
         /\ handled' = [k \in Presses |-> handled[k] + CountOf(done, k)]
         /\ keyClicks' = keyClicks + CountOf(done, 0)
         /\ pointerDown' = IF ev = "press" THEN TRUE
                           ELSE IF ev \in {"releaseIn", "releaseOut", "cancel"} THEN FALSE
                           ELSE pointerDown
         /\ cur' = IF ev = "press" THEN id ELSE cur
         /\ outcome' = IF ev = "press" THEN [outcome EXCEPT ![id] = "down"]
                       ELSE IF cur > 0 /\ outcome[cur] = "down" /\ ev \in Ending
                            THEN [outcome EXCEPT ![cur] = ev]
                       ELSE outcome
         /\ accepted' = IF ev = "press" THEN [accepted EXCEPT ![id] = ~flags]
                        ELSE accepted
         /\ midDisabled' = IF ev # "press" /\ cur > 0 /\ outcome[cur] = "down" /\ flags
                           THEN [midDisabled EXCEPT ![cur] = TRUE]
                           ELSE midDisabled
  /\ UNCHANGED <<disabler, GlobalDisable>>
  /\ UNCHANGED <<flexVars, sepVars, listVars, inkVars, loopVars>>

\* A frame the host runs for an input event or on its own, up to MaxTime.
ButtonFrame(dt, ev) ==
  /\ now + dt <= MaxTime
  /\ Frame(dt, ev)

\* The frame the host schedules in answer to an InvalidateOp, FrameTick after
\* the frame that added it and with no input.  While a press is still held
\* the clock stops at MaxTime.
RedrawFrame ==
  /\ invalidated
  /\ AllEnded(history) \/ now + FrameTick <= MaxTime
  /\ Frame(FrameTick, "none")

\* The application writes the flag b.disabler points to.
SetDisabler(v) ==
  /\ disabler # "nil" /\ disabler # v
  /\ disabler' = v
  /\ UNCHANGED <<now, history, hovered, focused, disabled, GlobalDisable,
                 clicks, handled, keyClicks, invalidated,
                 pointerDown, cur, outcome, accepted, midDisabled>>
  /\ UNCHANGED <<flexVars, sepVars, listVars, inkVars, loopVars>>

\* The application writes GlobalDisable.
SetGlobalDisable(v) ==
  /\ GlobalDisable # v
  /\ GlobalDisable' = v
  /\ UNCHANGED <<now, history, hovered, focused, disabled, disabler,
                 clicks, handled, keyClicks, invalidated,
                 pointerDown, cur, outcome, accepted, midDisabled>>
  /\ UNCHANGED <<flexVars, sepVars, listVars, inkVars, loopVars>>

(***************************************************************************)
(* The demo program's event loop (demo.go, main and handleFrameEvents).    *)
(* progressIncrementer and win.Events() are unbuffered channels: a value   *)
(* arrives at the loop in the step in which the loop's select receives it. *)
(* progress is in tenths: the ticker sends 0.1 and the loop wraps above 1. *)
(***************************************************************************)
ProgressStep == 1
ProgressFull == 10
WindowSizes == {1, 2}
NoEvent == [kind |-> "none", size |-> 0]
WindowEvents == [kind : {"frame"}, size : WindowSizes] \cup {[kind |-> "destroy", size |-> 0]}
TickPcs == {"tickAdd", "tickWrap", "tickInvalidate"}
FramePcs == {"frameSetup", "frameLayout", "frameSubmit"}

\* What the ticker goroutine's body does to progress: it sleeps and sends,
\* and leaves the variable alone.
TickerIncrements(p) == p + ProgressStep
TickerWrites(p) == p

\* go func() { for { time.Sleep(500ms); progressIncrementer <- 0.1 } }():
\* the sleep is over and the goroutine blocks in the send.
TickerWake ==
  /\ loopPc # "exit"
  /\ tickerPc = "sleep"
  /\ tickerPc' = "send"
  /\ progress' = TickerWrites(progress)
  /\ UNCHANGED <<loopPc, winOffer, curEvent, pg, oldWindowSize, tree, seen,
                 invalidateReq, pending>>
  /\ UNCHANGED <<flexVars, sepVars, listVars, inkVars, btnVars>>

\* The window has an event for the program and blocks sending it: a frame
\* (after input, a resize, or win.Invalidate()) or the window's destruction.
WindowOffer(e) ==
  /\ loopPc # "exit"
  /\ winOffer = NoEvent
  /\ winOffer' = e
  /\ invalidateReq' = IF e.kind = "frame" THEN FALSE ELSE invalidateReq
  /\ UNCHANGED <<tickerPc, loopPc, curEvent, pg, progress, oldWindowSize, tree,
                 seen, pending>>
  /\ UNCHANGED <<flexVars, sepVars, listVars, inkVars, btnVars>>

\* select: case e := <-win.Events().  DestroyEvent: os.Exit(0);
\* FrameEvent: handleFrameEvents(e) is entered.
LoopReceiveWindow ==
  /\ loopPc = "select"
  /\ winOffer # NoEvent
  /\ curEvent' = winOffer
  /\ winOffer' = NoEvent
  /\ loopPc' = IF winOffer.kind = "destroy" THEN "exit" ELSE "frameSetup"
  /\ pending' = IF winOffer.kind = "destroy" THEN pending
                ELSE Append(pending, "frame")
  /\ UNCHANGED <<tickerPc, pg, progress, oldWindowSize, tree, seen, invalidateReq>>
  /\ UNCHANGED <<flexVars, sepVars, listVars, inkVars, btnVars>>

\* select: case pg := <-progressIncrementer.  The send and the receive are
\* one rendezvous; the ticker goes back to sleep.
LoopReceiveTick ==
  /\ loopPc = "select"
  /\ tickerPc = "send"
  /\ tickerPc' = "sleep"
  /\ pg' = ProgressStep
  /\ loopPc' = "tickAdd"
  /\ pending' = Append(pending, "tick")
  /\ UNCHANGED <<winOffer, curEvent, progress, oldWindowSize, tree, seen,
                 invalidateReq>>
  /\ UNCHANGED <<flexVars, sepVars, listVars, inkVars, btnVars>>

\* progress += pg
TickAdd ==
  /\ loopPc = "tickAdd"
  /\ progress' = progress + pg
  /\ loopPc' = "tickWrap"
  /\ UNCHANGED <<tickerPc, winOffer, curEvent, pg, oldWindowSize, tree, seen,
                 invalidateReq, pending>>
  /\ UNCHANGED <<flexVars, sepVars, listVars, inkVars, btnVars>>

\* if progress > 1 { progress = 0 }
TickWrap ==
  /\ loopPc = "tickWrap"
  /\ progress' = IF progress > ProgressFull THEN 0 ELSE progress
  /\ loopPc' = "tickInvalidate"
  /\ UNCHANGED <<tickerPc, winOffer, curEvent, pg, oldWindowSize, tree, seen,
                 invalidateReq, pending>>
  /\ UNCHANGED <<flexVars, sepVars, listVars, inkVars, btnVars>>

\* win.Invalidate(), and back to the select
TickInvalidate ==
  /\ loopPc = "tickInvalidate"
  /\ invalidateReq' = TRUE
  /\ loopPc' = "select"
  /\ pending' = Tail(pending)
  /\ UNCHANGED <<tickerPc, winOffer, curEvent, pg, progress, oldWindowSize, tree,
                 seen>>
  /\ UNCHANGED <<flexVars, sepVars, listVars, inkVars, btnVars>>

\* handleFrameEvents, first statement: on a changed window size the text
\* size is recomputed and setup() rebuilds the widget tree.
FrameSetup ==
  /\ loopPc = "frameSetup"
  /\ IF oldWindowSize # curEvent.size
     THEN oldWindowSize' = curEvent.size /\ tree' = curEvent.size
     ELSE UNCHANGED <<oldWindowSize, tree>>
  /\ loopPc' = "frameLayout"
  /\ UNCHANGED <<tickerPc, winOffer, curEvent, pg, progress, seen, invalidateReq,
                 pending>>
  /\ UNCHANGED <<flexVars, sepVars, listVars, inkVars, btnVars>>

\* wid.Root(gtx): the layout pass; the progress bar reads progress.
FrameLayout ==
  /\ loopPc = "frameLayout"
  /\ seen' = progress
  /\ loopPc' = "frameSubmit"
  /\ UNCHANGED <<tickerPc, winOffer, curEvent, pg, progress, oldWindowSize, tree,
                 invalidateReq, pending>>
  /\ UNCHANGED <<flexVars, sepVars, listVars, inkVars, btnVars>>

\* e.Frame(gtx.Ops), and back to the select
FrameSubmit ==
  /\ loopPc = "frameSubmit"
  /\ loopPc' = "select"
  /\ pending' = Tail(pending)
  /\ UNCHANGED <<tickerPc, winOffer, curEvent, pg, progress, oldWindowSize, tree,
                 seen, invalidateReq>>
  /\ UNCHANGED <<flexVars, sepVars, listVars, inkVars, btnVars>>

\* main up to the loop: progress is the zero value, setup() has built the
\* tree for the zero window size, both goroutines have started.
LoopInit ==
  /\ tickerPc = "sleep"
  /\ loopPc = "select"
  /\ winOffer = NoEvent
  /\ curEvent = NoEvent
  /\ pg = 0
  /\ progress = 0
  /\ oldWindowSize = 0
  /\ tree = 0
  /\ seen = 0
  /\ invalidateReq = FALSE
  /\ pending = <<>>

FlexInit ==
  /\ flexArgs = <<>>
  /\ flexNode = <<>>
  /\ flexBuilt = FALSE
  /\ flexL = -1
  /\ flexSizes = <<>>

SepInit ==
  /\ sepStyle = [thickness |-> 0, top |-> 0, bottom |-> 0]
  /\ sepCons = [minX |-> 0, maxX |-> 0, minY |-> 0, maxY |-> 0]
  /\ sepDims = [X |-> 0, Y |-> 0]

ListInit ==
  /\ listArgs = <<>>
  /\ listNode = <<>>
  /\ listBuilt = FALSE
  /\ listOffset = 0
  /\ listV = 0
  /\ listScale = 1
  /\ listInput = "none"
  /\ listLaid = <<>>

InkInit ==
  /\ inkPress = NoPress
  /\ inkNow = 0
  /\ inkOut = [drawn |-> FALSE, alpha |-> 0, ba |-> {0}, half1 |-> 0, sizet |-> 0,
               invalidate |-> FALSE]

\* Button(style, th, label, options...): Disable(v) sets b.disabler
ButtonInit ==
  /\ now = 0
  /\ history = <<>>
  /\ hovered = FALSE
  /\ focused = FALSE
  /\ disabled = FALSE
  /\ disabler \in {"nil", "false", "true"}
  /\ GlobalDisable = FALSE
  /\ clicks = <<>>
  /\ handled = [k \in Presses |-> 0]
  /\ keyClicks = 0
  /\ invalidated = FALSE
  /\ pointerDown = FALSE
  /\ cur = 0
  /\ outcome = [k \in Presses |-> "none"]
  /\ accepted = [k \in Presses |-> FALSE]
  /\ midDisabled = [k \in Presses |-> FALSE]

Init == FlexInit /\ SepInit /\ ListInit /\ InkInit /\ ButtonInit /\ LoopInit

\* The button under pointer input: a frame follows the last at once or after
\* FrameTick, and the application may write either disabling flag in between.
Next ==
  \/ \E dt \in {0, FrameTick}, ev \in PointerEvents \cup {"none"} : ButtonFrame(dt, ev)
  \/ \E v \in {"false", "true"} : SetDisabler(v)
  \/ \E v \in BOOLEAN : SetGlobalDisable(v)

Spec == Init /\ [][Next]_vars

\* The button under keyboard input, with presses and releases of the pointer.
NextKeys ==
  \/ \E dt \in {0, FrameTick}, ev \in KeyEvents \cup {"press", "releaseIn", "none"} :
        ButtonFrame(dt, ev)
  \/ \E v \in {"false", "true"} : SetDisabler(v)
  \/ \E v \in BOOLEAN : SetGlobalDisable(v)

SpecKeys == Init /\ [][NextKeys]_vars

\* The button under pointer and keyboard input, with the frames the host
\* schedules for the redraw requests: an InvalidateOp is always answered by
\* a frame.
NextQuiet ==
  \/ \E dt \in {0, FrameTick}, ev \in {"press", "releaseIn", "cancel", "focus", "key"} :
        ButtonFrame(dt, ev)
  \/ \E v \in {"false", "true"} : SetDisabler(v)
  \/ RedrawFrame

SpecQuiet == Init /\ [][NextQuiet]_vars /\ WF_vars(RedrawFrame)

NextFlex ==
  \/ \E ws \in SeqsUpTo(FlexWidgets, MaxChildren) : MakeFlex(ws)
  \/ \E L \in 0..MaxL : FlexPass(L)

NextSep ==
  \/ \E s \in SepStyles : MakeSeparator(s)
  \/ \E c \in SepConstraints : SepPass(c)

NextList ==
  \/ \E ws \in SeqsUpTo(1..MaxWidgets, MaxWidgets) : MakeList(ws)
  \/ \E V \in 1..MaxV, sc \in ListScales, inp \in ScrollInputs : ListPass(V, sc, inp)

NextInk ==
  \/ \E dt \in 0..MaxDt : InkPressFrame(dt)
  \/ \E dt \in 0..MaxDt, cancel \in BOOLEAN : InkReleaseFrame(dt, cancel)
  \/ \E dt \in 1..MaxDt : InkFrame(dt)

SpecInk == Init /\ [][NextInk]_vars
SpecList == Init /\ [][NextList]_vars
SpecFlex == Init /\ [][NextFlex]_vars
SpecSep == Init /\ [][NextSep]_vars

\* A form built from one container, a flex or a list, and its passes.
NextTree ==
  \/ \E ws \in SeqsUpTo(FlexWidgets, MaxChildren) : ~listBuilt /\ MakeFlex(ws)
  \/ \E L \in 0..MaxL : FlexPass(L)
  \/ \E ws \in SeqsUpTo(1..MaxWidgets, MaxWidgets) : ~flexBuilt /\ MakeList(ws)
  \/ \E V \in 1..MaxV, sc \in ListScales, inp \in ScrollInputs : ListPass(V, sc, inp)

SpecTree == Init /\ [][NextTree]_vars

\* The demo's two goroutines and the window that feeds the event loop.
NextLoop ==
  \/ TickerWake
  \/ \E e \in WindowEvents : WindowOffer(e)
  \/ LoopReceiveWindow
  \/ LoopReceiveTick
  \/ TickAdd
  \/ TickWrap
  \/ TickInvalidate
  \/ FrameSetup
  \/ FrameLayout
  \/ FrameSubmit

SpecLoop == Init /\ [][NextLoop]_vars

(***************************************************************************)
(* Flex claims                                                             *)
(***************************************************************************)
FlexLaid == flexL >= 0 /\ flexNode # <<>>

HasFill == \E i \in 1..Len(flexNode) : flexNode[i].kind = "Fill"

\* The length the spec's first pass gives a child: px, or fraction x L.
RequestedLen(c, L) ==
  IF c.kind = "Fixed" THEN Px(c.width)
  ELSE IF c.kind = "Relative" THEN PxScaled(c.width, L)
  ELSE 0

RequestedSum == SumSeq([i \in 1..Len(flexNode) |-> RequestedLen(flexNode[i], flexL)])

NumFill == Cardinality({i \in 1..Len(flexNode) : flexNode[i].kind = "Fill"})

Abs(x) == IF x < 0 THEN -x ELSE x

\* C4 as stated: in every flex distribution of a non-empty child sequence the
\* children's main-axis lengths sum to the available length L exactly.
C4_ExactSum == FlexLaid => SumSeq(flexSizes) = flexL

\* C4 amended: the children's lengths never sum to more than L, and they sum
\* to L exactly whenever one of the children is a FillRemaining child; without
\* one the space the Fixed and Relative children leave stays unassigned (no
\* remainder is handed to the last child).
C4_SumWithinL ==
  FlexLaid =>
    /\ Len(flexSizes) = Len(flexNode)
    /\ SumSeq(flexSizes) <= flexL
    /\ HasFill => SumSeq(flexSizes) = flexL

\* a fixed child, a fill child and a fixed child in L: the lengths sum to L
C4_Witness ==
  /\ FlexLaid /\ flexL = MaxL /\ Len(flexNode) = 3
  /\ flexNode[1].kind = "Fixed" /\ flexNode[2].kind = "Fill" /\ flexNode[3].kind = "Fixed"
  /\ flexSizes = <<3, MaxL - 3, 0>>

\* C5 as stated: no child gets a negative length, and when the Fixed and
\* Relative lengths alone exceed L the children are scaled down in proportion
\* (each but the last within a pixel of requested * L / sum) and sum to L.
C5_ProportionalOverflow ==
  FlexLaid =>
    /\ \A i \in 1..Len(flexSizes) : flexSizes[i] >= 0
    /\ RequestedSum > flexL =>
         /\ SumSeq(flexSizes) = flexL
         /\ \A i \in 1..(Len(flexSizes) - 1) :
              Abs(flexSizes[i] * RequestedSum - RequestedLen(flexNode[i], flexL) * flexL)
                < RequestedSum

\* C5 amended: every child's length is at least 0 and at most the space the
\* children before it left over (L minus their lengths): on overflow the
\* children are cut off in order, not scaled in proportion.
C5_ClampedToRemaining ==
  FlexLaid =>
    \A i \in 1..Len(flexSizes) :
      /\ flexSizes[i] >= 0
      /\ flexSizes[i] <= flexL - SumSeq(SubSeq(flexSizes, 1, i - 1))

C5_Witness ==
  /\ FlexLaid /\ flexL = 8
  /\ flexNode = <<Fixed(7), Fixed(7), Fixed(3)>>
  /\ flexSizes = <<7, 1, 0>>

\* C6 as stated: when the Fixed and Relative lengths do not exceed L, a Fixed
\* child gets px, a Relative child gets fraction x L, and the FillRemaining
\* children share the rest L - sum equally (to within the rounding pixel).
C6_PolicyLengths ==
  (FlexLaid /\ RequestedSum <= flexL) =>
    \A i \in 1..Len(flexNode) :
      IF flexNode[i].kind = "Fill"
      THEN Abs(flexSizes[i] * NumFill - (flexL - RequestedSum)) < NumFill
      ELSE flexSizes[i] = RequestedLen(flexNode[i], flexL)

(***************************************************************************)
(* Separator claim                                                         *)
(***************************************************************************)
SepLaid == sepStyle.thickness > 0 /\ sepDims # [X |-> 0, Y |-> 0]

\* C9: a layout function called with 0 <= min <= max returns a size with
\* min <= size <= max componentwise (here: the function Separator returns).
C9_SizeWithinConstraints ==
  SepLaid =>
    /\ sepCons.minX <= sepDims.X /\ sepDims.X <= sepCons.maxX
    /\ sepCons.minY <= sepDims.Y /\ sepDims.Y <= sepCons.maxY

(***************************************************************************)
(* List claims                                                             *)
(***************************************************************************)
ListPassed == listBuilt /\ listV > 0

\* Child i's extent overlaps the window [offset, offset + V].
InWindow(i) ==
  /\ ChildStart(listNode, listScale, i) < listOffset + listV
  /\ ChildStart(listNode, listScale, i) + Extent(listNode[i], listScale) > listOffset

LaidIndices == {listLaid[k][1] : k \in 1..Len(listLaid)}

\* C7: in one pass the children laid out are exactly those whose extent
\* intersects [o, o + V] (in more than a boundary point), each once and in
\* order, and the element laid out
\* for index i is the i-th widget given to MakeList.
C7_OnlyWindowLaidOut ==
  ListPassed =>
    /\ LaidIndices = {i \in 1..Len(listNode) : InWindow(i)}
    /\ \A k \in 1..Len(listLaid) : listLaid[k][2] = listNode[listLaid[k][1]]
    /\ \A k \in 1..(Len(listLaid) - 1) : listLaid[k][1] < listLaid[k + 1][1]

\* the first child lies before the window and is not laid out
C7_Witness ==
  /\ ListPassed /\ listNode = <<2, 1>> /\ listScale = 1
  /\ listOffset = 2 /\ listV = 1
  /\ listLaid = <<<<2, 1>>>>

\* C8: at the end of every pass 0 <= offset <= max(0, totalExtent - V), and a
\* pass with no scroll input and no change of viewport or content size leaves
\* the offset as it was.
C8_OffsetClampedAndKept ==
  /\ [](ListPassed =>
          /\ 0 <= listOffset
          /\ listOffset <= Max2(0, TotalExtent(listNode, listScale) - listV))
  /\ [][(listBuilt /\ listInput' = "none" /\ listV' = listV /\ listScale' = listScale)
          => listOffset' = listOffset]_vars

C8_Witness ==
  /\ ListPassed /\ listInput = "none"
  /\ listOffset > 0
  /\ listOffset = TotalExtent(listNode, listScale) - listV

(***************************************************************************)
(* Ink claims                                                              *)
(***************************************************************************)
InkReleased == inkPress # NoPress /\ inkPress.End # NoTime

InkHaste == Haste(inkPress, inkPress.End - inkPress.Start)

\* C10: for a released press sampled at increasing times, the opacity never
\* increases from one sample to the next, it is 0 and nothing is drawn
\* whenever (now-end)/0.9 + haste > 0.5, and it is 0 from now = end + 0.9 on.
C10_FadeOutMonotone ==
  /\ []((InkReleased /\ (inkNow - inkPress.End) + InkHaste > HalfFade)
          => (~inkOut.drawn /\ inkOut.alpha = 0))
  /\ []((InkReleased /\ inkNow >= inkPress.End + FadeTicks) => inkOut.alpha = 0)
  /\ [][(InkReleased /\ inkPress' = inkPress) => inkOut'.alpha <= inkOut.alpha]_vars

\* start = 0, end = 0.3 s, sampled at 0.5 s: partly faded, still drawn
C10_Witness ==
  /\ inkPress = [Start |-> 0, End |-> 6, Cancelled |-> FALSE]
  /\ inkNow = 10
  /\ inkOut.drawn /\ inkOut.alpha > 0 /\ inkOut.alpha < AlphaNum(HalfFade)

(***************************************************************************)
(* Button claims                                                           *)
(***************************************************************************)
\* the flags disable the widget in a frame laid out now
FlagsDisable == disabler = "true" \/ GlobalDisable

\* press k was opened on an enabled widget that stayed enabled in every frame
\* up to the one that ended it
EnabledPress(k) == accepted[k] /\ ~midDisabled[k]

\* C1: on an enabled widget a press followed by a release inside bounds has
\* emitted exactly one click for that press, a press followed by a cancel,
\* by the pointer leaving or by a release outside bounds has emitted none,
\* and no press ever emits two.
C1_OneClickPerPress ==
  \A k \in Presses :
    /\ handled[k] <= 1
    /\ (EnabledPress(k) /\ outcome[k] = "releaseIn") => handled[k] = 1
    /\ (EnabledPress(k) /\ outcome[k] \in {"down", "releaseOut", "cancel", "leave"})
         => handled[k] = 0

C1_Witness ==
  /\ EnabledPress(1) /\ outcome[1] = "releaseIn" /\ handled[1] = 1
  /\ now > 0 /\ ~pointerDown /\ clicks = <<>>

C3_DisabledAcceptsNothing ==
  [][FlagsDisable =>
       /\ (disabler' = disabler /\ GlobalDisable' = GlobalDisable) => disabled'
       /\ handled' = handled /\ keyClicks' = keyClicks /\ clicks' = clicks
       /\ Len(history') <= Len(history)
       /\ \A i \in 1..Len(history') : \E j \in 1..Len(history) : history'[i] = history[j]]_vars

\* a press arrived while the focused widget was disabled: nothing recorded
C3_Witness ==
  /\ disabled /\ FlagsDisable /\ focused
  /\ cur = 1 /\ ~accepted[1] /\ pointerDown
  /\ history = <<>> /\ handled[1] = 0 /\ keyClicks = 0

\* a record of the history that, at time t, is not fully faded and whose
\* expansion is not past its full size
Animating(c, t) ==
  LET endt == c.End - c.Start
      haste == IF c.Cancelled /\ endt < HalfFade THEN HalfFade - endt ELSE 0
      grown == IF c.Cancelled THEN endt ELSE t - c.Start
  IN  /\ c.End = NoTime \/ (t - c.End) + haste <= HalfFade
      /\ 2 * grown <= SecondTicks

\* C11: a layout pass that finds in the press history a record that is not
\* fully faded and not past full expansion adds a redraw request, whatever
\* event the pass receives (none included) and whether or not the widget is
\* disabled.
C11_AnimatingRequestsRedraw ==
  [][(disabler' = disabler /\ GlobalDisable' = GlobalDisable /\ now' >= now)
       => ((\E i \in 1..Len(history) : Animating(history[i], now'))
             => invalidated')]_vars

\* a press held over a later frame that brought no end of it: redraw requested
C11_Witness ==
  /\ Len(history) = 1 /\ history[1].End = NoTime
  /\ now = history[1].Start + FrameTick
  /\ invalidated

NoOpenRecord == \A i \in 1..Len(history) : history[i].End # NoTime

\* C12: a release or a cancel arriving while the press history has no open
\* record is a no-op: the pass leaves the history, hovered and focused as a
\* pass without the event leaves them (the history less its faded records,
\* every record kept unaltered), disabled is what the flags make it, no click
\* is queued or handled.
C12_UnmatchedReleaseIsNoOp ==
  [][(NoOpenRecord /\ pointerDown /\ ~pointerDown') =>
       /\ history' = Prune(history, now')
       /\ \A i \in 1..Len(history') : \E j \in 1..Len(history) : history'[i] = history[j]
       /\ hovered' = hovered /\ focused' = focused
       /\ disabled' = FlagsDisable
       /\ clicks' = clicks /\ handled' = handled /\ keyClicks' = keyClicks]_vars

\* a press cancelled by the pointer leaving, then released inside bounds in a
\* later frame: the closed record is as the cancel left it, no click
C12_Witness ==
  /\ cur = 1 /\ accepted[1] /\ ~midDisabled[1] /\ outcome[1] = "leave"
  /\ ~pointerDown /\ ~disabled
  /\ Len(history) = 1 /\ history[1].Cancelled /\ history[1].End < now
  /\ handled[1] = 0 /\ clicks = <<>>

\* the record a keyboard activation at time t leaves: pressed and released at t
KeyRecord(c, t) == c.Start = t /\ c.End = t /\ ~c.Cancelled

\* C13: an activation key delivered in a frame to a widget that is focused and
\* not disabled is handled as exactly one click and appends one closed record
\* to the press history; delivered while the widget is not focused or is
\* disabled it gives no click and no record.
C13_KeyActivation ==
  [][ButtonFrame(now' - now, "key") =>
         IF focused /\ ~FlagsDisable
         THEN /\ keyClicks' = keyClicks + 1 /\ handled' = handled /\ clicks' = <<>>
              /\ history' = Append(Prune(history, now'), history'[Len(history')])
              /\ KeyRecord(history'[Len(history')], now')
         ELSE /\ keyClicks' = keyClicks /\ handled' = handled /\ clicks' = clicks
              /\ history' = Prune(history, now')]_vars

\* after a pointer click, an activation key on the focused widget: one key
\* click, and its closed record after the pointer's
C13_Witness ==
  /\ focused /\ ~disabled /\ keyClicks = 1
  /\ Len(history) = 2
  /\ history[1].End # NoTime /\ history[1].Start < history[1].End
  /\ KeyRecord(history[2], now)

(***************************************************************************)
(* Event-loop claims                                                       *)
(***************************************************************************)
LoopHandling == loopPc \in TickPcs \cup FramePcs

\* The loop holds at most the one event it is handling, a pass runs on
\* fully applied ticks, and what it draws is the progress value of its end.
LoopOneAtATime ==
  /\ Len(pending) = IF LoopHandling THEN 1 ELSE 0
  /\ loopPc \in TickPcs => pending = <<"tick">>
  /\ loopPc \in FramePcs => pending = <<"frame">>
  /\ loopPc \in FramePcs => progress \in 0..ProgressFull
  /\ loopPc = "frameSubmit" => seen = progress

\* No step inside a pass touches progress or takes another event, events
\* leave the loop in the order they came in, and only the loop's own
\* statements write progress, the window size and the widget tree.
LoopSingleWriter ==
  /\ loopPc \in FramePcs =>
        /\ progress' = progress
        /\ pending' = pending \/ (loopPc = "frameSubmit" /\ pending' = <<>>)
  /\ loopPc \in {"frameLayout", "frameSubmit"} => tree' = tree
  /\ pending' # pending => (pending = <<>> /\ loopPc = "select") \/ pending' = Tail(pending)
  /\ progress' # progress => loopPc \in {"tickAdd", "tickWrap"} /\ tickerPc' = tickerPc
  /\ (tree' # tree \/ oldWindowSize' # oldWindowSize) =>
        loopPc = "frameSetup" /\ tickerPc' = tickerPc

\* C14: the event loop is the single consumer of window events and ticks and
\* handles them one at a time, in arrival order, each to completion; a layout
\* pass is never interleaved with a tick or another event and sees every
\* earlier tick fully applied; progress, the window size and the widget tree
\* are written by the loop goroutine only, never by the ticker goroutine.
C14_SingleConsumerLoop == []LoopOneAtATime /\ [][LoopSingleWriter]_vars

\* A pass is about to submit its frame, having drawn ten applied ticks, while
\* the ticker is blocked in its send and the window in its next event.
C14_Witness ==
  /\ loopPc = "frameSubmit" /\ seen = ProgressFull /\ tree = 2
  /\ tickerPc = "send" /\ winOffer # NoEvent

(***************************************************************************)
(* Ink claims: fade-in and haste                                           *)
(***************************************************************************)
InkHeld == inkPress # NoPress /\ inkPress.End = NoTime

\* C15: while a press is held its fade-in component ramps with the time since
\* the press: below the full value HalfFade before 0.45 s (HalfFade ticks, at
\* the elapsed time itself) and equal to it from then on.
C15_FadeInRamps ==
  InkHeld =>
    IF inkNow - inkPress.Start < HalfFade
    THEN inkOut.half1 = inkNow - inkPress.Start /\ inkOut.half1 < HalfFade
    ELSE inkOut.half1 = HalfFade

InkCancelledEarly ==
  /\ inkPress # NoPress /\ inkPress.End # NoTime /\ inkPress.Cancelled
  /\ inkPress.End - inkPress.Start < HalfFade

\* C16: a press cancelled before it was fully faded in fades out from the
\* opacity the fade-in had reached: the frame that cancels it paints the
\* opacity the frame before painted at the same instant, and the ink is gone
\* once a further End - Start has passed.
C16_NoJumpAtEarlyCancel ==
  [][/\ (InkHeld /\ InkCancelledEarly' /\ inkNow' = inkNow)
          => (inkOut'.drawn /\ inkOut'.alpha = inkOut.alpha)
     /\ InkCancelledEarly'
          => (inkOut'.drawn <=> inkNow' - inkPress'.End <= inkPress'.End - inkPress'.Start)]_vars

(***************************************************************************)
(* History claims                                                          *)
(***************************************************************************)
\* the fade-out of c has completed at t: 0.45 s after its end, or an
\* early-cancelled press's own length after its end
FadeOutDone(c, t) ==
  /\ c.End # NoTime
  /\ IF c.Cancelled /\ c.End - c.Start < HalfFade
     THEN t - c.End > c.End - c.Start
     ELSE t - c.End > HalfFade

SameRecord(a, b) ==
  /\ a.id = b.id /\ a.Start = b.Start
  /\ b.End # NoTime => (a.End = b.End /\ a.Cancelled = b.Cancelled)

\* C17: every record whose fade-out has not completed at the time of a frame
\* is still in the history after the frame, in insertion order and ahead of
\* any record the frame adds; only records with a completed fade-out go.
C17_UnfadedRecordsRetained ==
  [][LET StillFading(c) == ~FadeOutDone(c, now')
         kept == SelectSeq(history, StillFading)
     IN  /\ Len(history') \in {Len(kept), Len(kept) + 1}
         /\ \A k \in 1..Len(kept) : SameRecord(history'[k], kept[k])]_vars

\* A press released one frame ago is still in the history, fading, ahead of
\* the record a keyboard activation has just added.
C17_Witness ==
  /\ Len(history) = 2
  /\ history[1].id = 1 /\ history[1].End # NoTime /\ now - history[1].End = FrameTick
  /\ ~FadeOutDone(history[1], now)
  /\ history[2].id = 0 /\ history[2].Start = now

\* C18: drawInk asks for a redraw only for ended presses and for presses
\* still expanding: a press that is held and has been for 0.5 s or more (full
\* expansion) adds no redraw request.
C18_HeldFullyExpandedIsQuiet ==
  (InkHeld /\ 2 * (inkNow - inkPress.Start) >= SecondTicks) => ~inkOut.invalidate

(***************************************************************************)
(* Tree claims                                                             *)
(***************************************************************************)
\* The children a container holds are the widgets it was built with, child i
\* being the i-th argument.
ChildrenAsBuilt ==
  /\ flexBuilt => flexNode = flexArgs
  /\ listBuilt => listNode = listArgs

\* A flex pass lays out every child: child i returns the length the i-th
\* argument returns when offered what the children before it left.
FlexLaysOutAll ==
  flexL >= 0 =>
    /\ Len(flexSizes) = Len(flexArgs)
    /\ \A i \in 1..Len(flexArgs) :
         flexSizes[i] = ChildWidth(flexArgs[i], 0,
                          Max2(0, flexL - SumSeq(SubSeq(flexSizes, 1, i - 1))))

\* C19 as stated: every invocation lays out exactly the n widgets the
\* function was built with, in argument order, child i being wi.
C19_EveryPassLaysOutAll ==
  /\ ChildrenAsBuilt
  /\ FlexLaysOutAll
  /\ listV > 0 => listLaid = [i \in 1..Len(listArgs) |-> <<i, listArgs[i]>>]

\* C19, amended: the children are the n widgets of the call, in argument
\* order, child i being wi, and no invocation changes them; a flex pass lays
\* out all of them, a list pass those its viewport shows, in index order,
\* each call of index i going to wi.
C19_ChildrenAsBuiltInOrder ==
  /\ []ChildrenAsBuilt
  /\ []FlexLaysOutAll
  /\ [](listV > 0 =>
          /\ \A k \in 1..Len(listLaid) :
               /\ listLaid[k][1] \in 1..Len(listArgs)
               /\ listLaid[k][2] = listArgs[listLaid[k][1]]
          /\ \A k \in 1..(Len(listLaid) - 1) : listLaid[k][1] < listLaid[k + 1][1])
  /\ [][/\ flexBuilt => (flexArgs' = flexArgs /\ flexNode' = flexNode)
        /\ listBuilt => (listArgs' = listArgs /\ listNode' = listNode)]_vars

\* A list built with the widgets 2 and 1 has been scrolled to its end and
\* invoked again: the pass lays out both children, child 1 being the first
\* argument and child 2 the second.
C19_Witness ==
  /\ listBuilt /\ listArgs = <<2, 1>> /\ listNode = <<2, 1>>
  /\ listV = 2 /\ listScale = 1 /\ listOffset = 1 /\ listInput = "none"
  /\ listLaid = <<<<1, 2>>, <<2, 1>>>>

\* C20: disabling and enabling the widget leaves its press history alone: a
\* write of either flag changes no record, and a frame that finds the widget
\* disabled leaves every record whose fade-out has not completed in place and
\* unaltered, still drawn (the frame asks for the next one); only records
\* with a completed fade-out go.
C20_DisableKeepsHistory ==
  [][/\ (disabler' # disabler \/ GlobalDisable' # GlobalDisable) => history' = history
     /\ (disabler' = disabler /\ GlobalDisable' = GlobalDisable /\ FlagsDisable) =>
          LET StillFading(c) == ~FadeOutDone(c, now')
              kept == SelectSeq(history, StillFading)
          IN  /\ history' = kept
              /\ kept # <<>> => invalidated']_vars

\* The widget was enabled for a press and its click, then disabled: the frame
\* after the release finds it disabled and still draws the fading record.
C20_Witness ==
  /\ disabled /\ FlagsDisable /\ accepted[1] /\ handled[1] = 1
  /\ Len(history) = 1 /\ history[1].End # NoTime /\ ~history[1].Cancelled
  /\ now = history[1].End + FrameTick /\ invalidated

(***************************************************************************)
(* Quiescence                                                              *)
(***************************************************************************)
Quiescent == history = <<>> /\ ~invalidated

\* C21: once every press has been released or cancelled for good and no
\* further input arrives, the redraw requests stop: the frames they schedule
\* advance the time until every record has faded, and from then on no frame
\* draws ink or asks for another, and the history is empty.
C21_EventuallyQuiescent == (<>[]NoOpenRecord) => <>[]Quiescent

\* Two frames after a click the time has passed the end of the fade-out:
\* the record is gone and the last frame asked for no redraw.
C21_Witness ==
  /\ Quiescent /\ cur = 1 /\ handled[1] = 1 /\ outcome[1] = "releaseIn"
  /\ now > MaxTime

(***************************************************************************)
(* Opacity range                                                           *)
(***************************************************************************)
\* C22: whenever drawInk paints, the opacity alpha lies in [0, 1], so that
\* alpha * 255 fits in a byte: the byte is the truncated product, whatever
\* the build.
C22_AlphaFitsByte ==
  inkOut.drawn =>
    /\ inkOut.alpha \in 0..AlphaDen
    /\ inkOut.ba = {(255 * inkOut.alpha) \div AlphaDen}

====
